---- MODULE Spec2Model ----
(***************************************************************************)
(* A model of the generative-text invocation layer of gitar:               *)
(*   src/llm.py    the standalone provider tester (main and its helpers)   *)
(*   src/gitai.py  get_openai_client and call_ai (retry with backoff)      *)
(*                                                                         *)
(* Python strings are sequences of one-character strings, so that lower(), *)
(* strip() and the substring test are computed.  Python/JSON values are    *)
(* records [type, val] with type in dict, list, str, int, null.            *)
(***************************************************************************)
EXTENDS Integers, Sequences, FiniteSets, TLC

VARIABLES
    prog,        \* which program runs: "llm" (src/llm.py) or "gitai" (src/gitai.py)
    pc,          \* position of the run: start, list, chat, call, done
    provider,    \* args.provider (llm); gitai always talks to OpenAI
    env,         \* the value of the provider's credential environment variable
    environ,     \* the optional environment variables the registry reads
    args,        \* parsed command line / call arguments
    requests,    \* network requests issued so far, in order
    responses,   \* what the provider answered to each request, in order
    sleeps,      \* time.sleep() calls made so far (seconds), in order
    attempt,     \* call_ai's loop index
    models,      \* llm main: the listing response body
    model,       \* the model in use
    out,         \* the body of the chat response
    text,        \* llm main: the result of the extractor
    ret,         \* gitai: call_ai's return value
    stdout,      \* markers of what was printed
    raised,      \* the exception that ended the process, "none" if none did
    exit_code    \* the process status, -1 while the process runs

vars == <<prog, pc, provider, env, environ, args, requests, responses, sleeps, attempt,
          models, model, out, text, ret, stdout, raised, exit_code>>

----------------------------------------------------------------------------
(* Python values *)

None == [type |-> "null", val |-> <<>>]
JStr(s) == [type |-> "str", val |-> s]
JInt(n) == [type |-> "int", val |-> n]
JList(l) == [type |-> "list", val |-> l]
JDict(d) == [type |-> "dict", val |-> d]

\* d.get(k) on a dict: the value, or None when the key is missing
Get(d, k) == IF k \in DOMAIN d.val THEN d.val[k] ELSE None

\* d.get(k, default)
GetOr(d, k, default) == IF k \in DOMAIN d.val THEN d.val[k] ELSE default

\* Python truthiness of a value
Truthy(v) ==
    CASE v.type = "null" -> FALSE
      [] v.type = "int" -> v.val # 0
      [] v.type = "dict" -> DOMAIN v.val # {}
      [] OTHER -> Len(v.val) > 0

----------------------------------------------------------------------------
(* Python string operations *)

LowerChar(c) ==
    CASE c = "A" -> "a" [] c = "B" -> "b" [] c = "C" -> "c" [] c = "D" -> "d"
      [] c = "E" -> "e" [] c = "F" -> "f" [] c = "G" -> "g" [] c = "H" -> "h"
      [] c = "I" -> "i" [] c = "J" -> "j" [] c = "K" -> "k" [] c = "L" -> "l"
      [] c = "M" -> "m" [] c = "N" -> "n" [] c = "O" -> "o" [] c = "P" -> "p"
      [] c = "Q" -> "q" [] c = "R" -> "r" [] c = "S" -> "s" [] c = "T" -> "t"
      [] c = "U" -> "u" [] c = "V" -> "v" [] c = "W" -> "w" [] c = "X" -> "x"
      [] c = "Y" -> "y" [] c = "Z" -> "z" [] OTHER -> c

\* str.lower()
Lower(s) == [i \in 1..Len(s) |-> LowerChar(s[i])]

\* p in s  (substring test)
Contains(p, s) ==
    \E i \in 1..(Len(s) - Len(p) + 1) : SubSeq(s, i, i + Len(p) - 1) = p

\* s.startswith(p)
StartsWith(s, p) == Len(s) >= Len(p) /\ SubSeq(s, 1, Len(p)) = p

Whitespace == {" ", "\t", "\n", "\r"}

RECURSIVE LStrip(_)
LStrip(s) ==
    IF s # <<>> /\ Head(s) \in Whitespace THEN LStrip(Tail(s)) ELSE s

RECURSIVE RStrip(_)
RStrip(s) ==
    IF s # <<>> /\ s[Len(s)] \in Whitespace
    THEN RStrip(SubSeq(s, 1, Len(s) - 1)) ELSE s

\* str.strip()
Strip(s) == RStrip(LStrip(s))

----------------------------------------------------------------------------
(* Provider registry (src/llm.py) *)

\* api_key_env of a provider that needs no key (Python None)
NoKeyEnv == "None"

PROVIDERS ==
    [openai     |-> [type |-> "openai_compat", api_key_env |-> "OPENAI_API_KEY"],
     xai        |-> [type |-> "openai_compat", api_key_env |-> "XAI_API_KEY"],
     mistral    |-> [type |-> "openai_compat", api_key_env |-> "MISTRAL_API_KEY"],
     groq       |-> [type |-> "openai_compat", api_key_env |-> "GROQ_API_KEY"],
     together   |-> [type |-> "openai_compat", api_key_env |-> "TOGETHER_API_KEY"],
     deepinfra  |-> [type |-> "openai_compat", api_key_env |-> "DEEPINFRA_API_KEY"],
     openrouter |-> [type |-> "openai_compat", api_key_env |-> "OPENROUTER_API_KEY"],
     ollama     |-> [type |-> "openai_compat", api_key_env |-> NoKeyEnv],
     claude     |-> [type |-> "anthropic", api_key_env |-> "ANTHROPIC_API_KEY"],
     gemini     |-> [type |-> "gemini", api_key_env |-> "GEMINI_API_KEY"]]

\* os.environ.get(name, default), read when the registry is built
OsEnvironGet(name, default) ==
    IF environ[name].type = "null" THEN default ELSE environ[name]

\* a mapping without keys (an empty dict, or no dict at all)
NoHeaders == [k \in {} |-> <<>>]

\* cfg.get("extra_headers"): only openrouter's entry has them
extra_headers(p) ==
    IF p = "openrouter"
    THEN ("HTTP-Referer" :> OsEnvironGet("OPENROUTER_HTTP_REFERER", JStr(<<>>)))
         @@ ("X-Title" :> OsEnvironGet("OPENROUTER_X_TITLE",
                JStr(<<"g", "i", "t", "a", "r", "-", "l", "l", "m", "-", "t", "e", "s", "t">>)))
    ELSE NoHeaders

\* cfg.get("anthropic_version", "2023-06-01"): claude's entry always has the key
anthropic_version ==
    OsEnvironGet("ANTHROPIC_VERSION", JStr(<<"2", "0", "2", "3", "-", "0", "6", "-", "0", "1">>))

----------------------------------------------------------------------------
(* Model selection (src/llm.py) *)

OpenAIPrefer ==
    <<<<"g", "p", "t">>,
      <<"l", "l", "a", "m", "a">>,
      <<"q", "w", "e", "n">>,
      <<"d", "e", "e", "p", "s", "e", "e", "k">>,
      <<"m", "i", "s", "t", "r", "a", "l">>,
      <<"m", "i", "x", "t", "r", "a", "l">>,
      <<"i", "n", "s", "t", "r", "u", "c", "t">>,
      <<"s", "o", "n", "a", "r">>,
      <<"g", "r", "o", "k">>>>

AnthropicPrefer ==
    <<<<"s", "o", "n", "n", "e", "t">>,
      <<"o", "p", "u", "s">>,
      <<"h", "a", "i", "k", "u">>,
      <<"c", "l", "a", "u", "d", "e">>>>

GeminiPrefer ==
    <<<<"g", "e", "m", "i", "n", "i", "-", "2">>,
      <<"g", "e", "m", "i", "n", "i", "-", "1", ".", "5">>,
      <<"p", "r", "o">>,
      <<"f", "l", "a", "s", "h">>>>

\* [m.get(key) for m in data if isinstance(m, dict) and isinstance(m.get(key), str)]
IdsOf(data, key) ==
    LET ok(m) == m.type = "dict" /\ Get(m, key).type = "str"
        kept == SelectSeq(data, ok)
    IN  [i \in 1..Len(kept) |-> kept[i].val[key].val]

\* for mid in ids: if p in mid.lower(): return mid      (0: no id matched)
RECURSIVE FirstMatch(_, _, _)
FirstMatch(p, ids, j) ==
    IF j > Len(ids) THEN 0
    ELSE IF Contains(p, Lower(ids[j])) THEN j
    ELSE FirstMatch(p, ids, j + 1)

\* mutant: the loops are nested the other way round (the first identifier
\* that matches any preference)
PreferLoop_IdsFirst(prefer, ids, i) ==
    LET hits == {j \in 1..Len(ids) :
                    \E k \in 1..Len(prefer) : FirstMatch(prefer[k], <<ids[j]>>, 1) # 0}
    IN  IF hits = {} THEN ids[1]
        ELSE ids[CHOOSE j \in hits : \A h \in hits : j <= h]

\* for p in prefer: <inner loop>;  return ids[0]
RECURSIVE PreferLoop(_, _, _)
PreferLoop(prefer, ids, i) ==
    IF i > Len(prefer) THEN ids[1]
    ELSE LET j == FirstMatch(prefer[i], ids, 1)
         IN  IF j # 0 THEN ids[j] ELSE PreferLoop(prefer, ids, i + 1)

pick_model_from_openai_models(models_json) ==
    LET data == IF models_json.type = "dict" THEN Get(models_json, "data") ELSE None
    IN  IF data.type # "list" \/ Len(data.val) = 0 THEN None
        ELSE LET ids == IdsOf(data.val, "id")
             IN  IF Len(ids) = 0 THEN None
                 ELSE JStr(PreferLoop(OpenAIPrefer, ids, 1))

anthropic_pick_model(models_json) ==
    IF models_json.type # "dict" THEN None
    ELSE LET data == Get(models_json, "data")
         IN  IF data.type # "list" \/ Len(data.val) = 0 THEN None
             ELSE LET ids == IdsOf(data.val, "id")
                  IN  IF Len(ids) = 0 THEN None
                      ELSE JStr(PreferLoop(AnthropicPrefer, ids, 1))

gemini_pick_model(models_json) ==
    IF models_json.type # "dict" THEN None
    ELSE LET mods == Get(models_json, "models")
         IN  IF mods.type # "list" \/ Len(mods.val) = 0 THEN None
             ELSE LET names == IdsOf(mods.val, "name")
                  IN  IF Len(names) = 0 THEN None
                      ELSE JStr(PreferLoop(GeminiPrefer, names, 1))

\* the picker main calls for a provider type
PickModel(ptype, models_json) ==
    CASE ptype = "openai_compat" -> pick_model_from_openai_models(models_json)
      [] ptype = "anthropic" -> anthropic_pick_model(models_json)
      [] ptype = "gemini" -> gemini_pick_model(models_json)

----------------------------------------------------------------------------
(* Reply extraction (src/llm.py).  An extractor either returns a value     *)
(* (a str or None) or raises.                                              *)

Returned(v) == [raised |-> FALSE, val |-> v]
Raised == [raised |-> TRUE, val |-> None]

\* mutant: the content is tidied before it is returned
extract_openai_chat_text_Strip(chat_json) ==
    IF chat_json.type # "dict" THEN Returned(None)
    ELSE LET choices == Get(chat_json, "choices")
         IN  IF choices.type # "list" \/ Len(choices.val) = 0 THEN Returned(None)
             ELSE IF choices.val[1].type # "dict" THEN Raised
             ELSE LET msg == Get(choices.val[1], "message")
                  IN  IF msg.type = "dict" /\ Get(msg, "content").type = "str"
                      THEN Returned(JStr(Strip(msg.val["content"].val)))
                      ELSE Returned(None)

extract_openai_chat_text(chat_json) ==
    IF chat_json.type # "dict" THEN Returned(None)
    ELSE LET choices == Get(chat_json, "choices")
         IN  IF choices.type # "list" \/ Len(choices.val) = 0 THEN Returned(None)
             \* choices[0].get: AttributeError unless choices[0] is a dict
             ELSE IF choices.val[1].type # "dict" THEN Raised
             ELSE LET msg == Get(choices.val[1], "message")
                  IN  IF msg.type = "dict" /\ Get(msg, "content").type = "str"
                      THEN Returned(msg.val["content"])
                      ELSE Returned(None)

anthropic_extract_text(msg_json) ==
    IF msg_json.type # "dict" THEN Returned(None)
    ELSE LET content == Get(msg_json, "content")
         IN  IF content.type # "list" \/ Len(content.val) = 0 THEN Returned(None)
             ELSE LET first == content.val[1]
                  IN  IF first.type = "dict" /\ Get(first, "text").type = "str"
                      THEN Returned(first.val["text"])
                      ELSE Returned(None)

gemini_extract_text(resp_json) ==
    IF resp_json.type # "dict" THEN Returned(None)
    ELSE LET cands == Get(resp_json, "candidates")
         IN  IF cands.type # "list" \/ Len(cands.val) = 0 THEN Returned(None)
             \* cands[0].get: AttributeError unless cands[0] is a dict
             ELSE IF cands.val[1].type # "dict" THEN Raised
             ELSE LET content == Get(cands.val[1], "content")
                  IN  IF content.type # "dict" THEN Returned(None)
                      ELSE LET parts == Get(content, "parts")
                           IN  IF parts.type # "list" \/ Len(parts.val) = 0
                               THEN Returned(None)
                               ELSE IF parts.val[1].type = "dict"
                                       /\ Get(parts.val[1], "text").type = "str"
                               THEN Returned(parts.val[1].val["text"])
                               ELSE Returned(None)

\* the extractor main calls for a provider type
ExtractText(ptype, body) ==
    CASE ptype = "openai_compat" -> extract_openai_chat_text(body)
      [] ptype = "anthropic" -> anthropic_extract_text(body)
      [] ptype = "gemini" -> gemini_extract_text(body)

----------------------------------------------------------------------------
(* Inputs: what the environment, the command line and the providers can    *)
(* hand to the program.  Pools are tuples, drawn from by index.            *)

\* os.environ.get(key_env): unset, set to the empty string, set to a key
EnvValues == {None, JStr(<<>>), JStr(<<"k">>)}

\* the optional variables, all unset
NoEnviron ==
    [OPENROUTER_HTTP_REFERER |-> None, OPENROUTER_X_TITLE |-> None,
     ANTHROPIC_VERSION |-> None]

\* the optional variables of a run: each variable the provider's registry
\* entry reads is unset, empty or set; the others do not reach the run
Environs(p) ==
    CASE p = "openrouter" ->
            {[NoEnviron EXCEPT !.OPENROUTER_HTTP_REFERER = r, !.OPENROUTER_X_TITLE = t] :
                r \in {None, JStr(<<>>), JStr(<<"r">>)},
                t \in {None, JStr(<<>>), JStr(<<"t">>)}}
      [] p = "claude" ->
            {[NoEnviron EXCEPT !.ANTHROPIC_VERSION = v] :
                v \in {None, JStr(<<>>), JStr(<<"v">>)}}
      [] OTHER -> {NoEnviron}

\* --model: not given, given empty, given
ExplicitModels == {None, JStr(<<>>), JStr(<<"m", "y", "-", "m", "o", "d", "e", "l">>)}

\* length of the catalogs the listing endpoint returns in a run of main
MaxCatalog == 2

\* statuses other than 200 a provider answers with
ErrorStatuses == {201, 400, 429, 500}

\* the nesting of a reply inside a chat response body, per provider type
ReplyChain(ptype) ==
    CASE ptype = "openai_compat" -> <<"choices", "[0]", "message", "content">>
      [] ptype = "anthropic" -> <<"content", "[0]", "text">>
      [] ptype = "gemini" -> <<"candidates", "[0]", "content", "parts", "[0]", "text">>

\* the body that holds leaf at the end of chain[i..]
RECURSIVE Nest(_, _, _)
Nest(chain, i, leaf) ==
    IF i > Len(chain) THEN leaf
    ELSE IF chain[i] = "[0]" THEN JList(<<Nest(chain, i + 1, leaf)>>)
    ELSE JDict(chain[i] :> Nest(chain, i + 1, leaf))

\* a well-formed chat response body of a provider type, with reply s
WellFormed(ptype, s) == Nest(ReplyChain(ptype), 1, JStr(s))

\* values of every JSON type, to stand where the chain expects something else
Junk ==
    <<None, JInt(7), JStr(<<"x">>), JList(<<>>), JList(<<JInt(1)>>), JDict(<<>>)>>

\* the body that follows the chain for d steps and then holds junk
Malformed(ptype, d, junk) == Nest(SubSeq(ReplyChain(ptype), 1, d), 1, junk)

\* reply texts a provider sends
ReplyStrings ==
    <<<<"O", "K">>, <<" ", "O", "K", "\n">>, <<>>, <<"a", " ", "b">>>>

\* an entry of a listing: a model object naming s under key
ModelEntry(key, s) == JDict(key :> JStr(s))

\* the key a provider type names its models under, and the key of the list
IdKey(ptype) == IF ptype = "gemini" THEN "name" ELSE "id"
ListKey(ptype) == IF ptype = "gemini" THEN "models" ELSE "data"

\* model identifiers found in the listings of each provider type
OpenAIModelIds ==
    <<<<"l", "l", "a", "m", "a", "-", "3", "-", "8", "b">>,
      <<"g", "p", "t", "-", "4", "o">>,
      <<"m", "i", "x", "t", "r", "a", "l", "-", "8", "x", "7", "b">>,
      <<"f", "o", "o", "-", "1">>,
      <<"b", "a", "r", "-", "2">>,
      <<"G", "P", "T", "-", "4", "-", "T", "u", "r", "b", "o">>,
      <<>>>>

AnthropicModelIds ==
    <<<<"c", "l", "a", "u", "d", "e", "-", "3", "-", "h", "a", "i", "k", "u">>,
      <<"c", "l", "a", "u", "d", "e", "-", "3", "-", "5", "-", "s", "o", "n", "n", "e", "t">>,
      <<"c", "l", "a", "u", "d", "e", "-", "3", "-", "o", "p", "u", "s">>,
      <<"f", "o", "o", "-", "1">>,
      <<"b", "a", "r", "-", "2">>,
      <<"C", "l", "a", "u", "d", "e", "-", "O", "p", "u", "s", "-", "4">>,
      <<>>>>

GeminiModelIds ==
    <<<<"m", "o", "d", "e", "l", "s", "/", "g", "e", "m", "i", "n", "i", "-", "1", ".", "5", "-", "f", "l", "a", "s", "h">>,
      <<"m", "o", "d", "e", "l", "s", "/", "g", "e", "m", "i", "n", "i", "-", "2", ".", "0", "-", "p", "r", "o">>,
      <<"m", "o", "d", "e", "l", "s", "/", "g", "e", "m", "i", "n", "i", "-", "p", "r", "o">>,
      <<"f", "o", "o", "-", "1">>,
      <<"b", "a", "r", "-", "2">>,
      <<"m", "o", "d", "e", "l", "s", "/", "G", "e", "m", "i", "n", "i", "-", "F", "l", "a", "s", "h">>,
      <<>>>>

ModelIds(ptype) ==
    CASE ptype = "openai_compat" -> OpenAIModelIds
      [] ptype = "anthropic" -> AnthropicModelIds
      [] ptype = "gemini" -> GeminiModelIds

\* entries of a listing: model objects, and what else a JSON array can hold
Entries(ptype) ==
    [i \in 1..Len(ModelIds(ptype)) |-> ModelEntry(IdKey(ptype), ModelIds(ptype)[i])]
    \o <<JDict("object" :> JStr(<<"m">>)), JDict(IdKey(ptype) :> JInt(7)), JStr(<<"x">>)>>

\* a listing body whose list holds the entries es
Listing(ptype, es) == JDict(ListKey(ptype) :> JList(es))

\* listing bodies that are JSON but not a listing of entries
OddListings(ptype) ==
    <<JList(<<>>), JDict(<<>>), JDict(ListKey(ptype) :> None),
      JDict(ListKey(ptype) :> JStr(<<"x">>)), None, JStr(<<"x">>)>>

\* sequences over 1..n of length at most k
SeqsUpTo(n, k) == UNION {[1..l -> 1..n] : l \in 0..k}

\* the entries the listings of a run of main are made of (indexes into Entries)
MainEntries == <<2, 4, 7, 8, 10>>

\* the catalogs of a run of main
MainCatalogs(ptype) ==
    {[i \in DOMAIN f |-> Entries(ptype)[MainEntries[f[i]]]] :
        f \in SeqsUpTo(Len(MainEntries), MaxCatalog)}

----------------------------------------------------------------------------
(* src/llm.py: main *)

Http(status) == [kind |-> "http", status |-> status]
Transport == [kind |-> "transport", status |-> 0]
NotJson == [kind |-> "not_json", status |-> 200]

ListRequest(p) == [kind |-> "list", provider |-> p, model |-> None]
ChatRequest(p, m) == [kind |-> "chat", provider |-> p, model |-> m]

\* mutant: sys.exit() without the code
Die_ZeroStatus ==
    /\ pc' = "done"
    /\ raised' = "SystemExit"
    /\ exit_code' = 0

\* die(): message to stderr, sys.exit(1)
Die ==
    /\ pc' = "done"
    /\ raised' = "SystemExit"
    /\ exit_code' = 1

\* an exception nothing catches ends the process with status 1
Crash(exc) ==
    /\ pc' = "done"
    /\ raised' = exc
    /\ exit_code' = 1

\* main goes on, or returns
NoExit == UNCHANGED <<raised, exit_code>>

InitLlm ==
    /\ prog = "llm"
    /\ pc = "start"
    /\ provider \in DOMAIN PROVIDERS
    /\ env \in EnvValues
    /\ environ \in Environs(provider)
    /\ args \in [list : BOOLEAN, model : ExplicitModels, raw : BOOLEAN, max_tokens : {64}]
    /\ requests = <<>>
    /\ responses = <<>>
    /\ sleeps = <<>>
    /\ attempt = 0
    /\ models = None
    /\ model = None
    /\ out = None
    /\ text = None
    /\ ret = None
    /\ stdout = <<>>
    /\ raised = "none"
    /\ exit_code = -1

\* key_env = cfg.get("api_key_env"); api_key = os.environ.get(key_env) if key_env else None
ApiKey(p) == IF PROVIDERS[p].api_key_env # NoKeyEnv THEN env ELSE None

\* mutant: only an unset variable counts as missing (is None instead of not)
MissingCredential_UnsetOnly(p) ==
    PROVIDERS[p].api_key_env # NoKeyEnv /\ ApiKey(p).type = "null"

\* if key_env and not api_key  /  if not api_key
MissingCredential(p) == PROVIDERS[p].api_key_env # NoKeyEnv /\ ~Truthy(ApiKey(p))

AppJson == <<"a", "p", "p", "l", "i", "c", "a", "t", "i", "o", "n", "/", "j", "s", "o", "n">>
Bearer == <<"B", "e", "a", "r", "e", "r", " ">>

\* mutant: the Authorization header is set whatever the key
build_openai_compat_headers_AlwaysAuth(api_key, extra) ==
    LET h == ("Accept" :> AppJson) @@ ("Content-Type" :> AppJson)
        auth == "Authorization" :> (Bearer \o api_key.val)
        kept == {k \in DOMAIN extra : Truthy(extra[k])}
    IN  [k \in kept |-> extra[k].val] @@ auth @@ h

\* h = {Accept, Content-Type}; Authorization if api_key; h[k] = v for the
\* extra headers whose value is not empty
build_openai_compat_headers(api_key, extra) ==
    LET h == ("Accept" :> AppJson) @@ ("Content-Type" :> AppJson)
        auth == IF Truthy(api_key)
                THEN "Authorization" :> (Bearer \o api_key.val)
                ELSE NoHeaders
        kept == {k \in DOMAIN extra : Truthy(extra[k])}
    IN  [k \in kept |-> extra[k].val] @@ auth @@ h

anthropic_headers(api_key, version) ==
    ("Accept" :> AppJson) @@ ("Content-Type" :> AppJson)
    @@ ("x-api-key" :> api_key.val) @@ ("anthropic-version" :> version.val)

\* the headers argument main passes to the request functions of a provider;
\* the gemini functions take none
headers(p) ==
    CASE PROVIDERS[p].type = "openai_compat" ->
            build_openai_compat_headers(ApiKey(p), extra_headers(p))
      [] PROVIDERS[p].type = "anthropic" ->
            anthropic_headers(ApiKey(p), anthropic_version)
      [] OTHER -> NoHeaders

\* params={"key": api_key} of the gemini requests
params(p) ==
    IF PROVIDERS[p].type = "gemini" THEN "key" :> ApiKey(p).val ELSE NoHeaders

\* the position of the first c in s
FirstIndex(s, c) ==
    CHOOSE i \in 1..Len(s) : s[i] = c /\ \A j \in 1..(i - 1) : s[j] # c

\* the position of the last c in s
LastIndex(s, c) ==
    CHOOSE i \in 1..Len(s) : s[i] = c /\ \A j \in (i + 1)..Len(s) : s[j] # c

ModelsPrefix == <<"m", "o", "d", "e", "l", "s", "/">>

\* mutant: the last path segment is kept (split("/")[-1])
model_short_LastSegment(model_name) ==
    IF StartsWith(model_name, ModelsPrefix)
    THEN SubSeq(model_name, LastIndex(model_name, "/") + 1, Len(model_name))
    ELSE model_name

\* model_name.split("/", 1)[1] if model_name.startswith("models/") else model_name
model_short(model_name) ==
    IF StartsWith(model_name, ModelsPrefix)
    THEN SubSeq(model_name, FirstIndex(model_name, "/") + 1, Len(model_name))
    ELSE model_name

\* url of the listing request, after the base url
ListUrl(ptype) ==
    CASE ptype = "openai_compat" -> <<"/", "m", "o", "d", "e", "l", "s">>
      [] ptype = "anthropic" -> <<"/", "v", "1", "/", "m", "o", "d", "e", "l", "s">>
      [] ptype = "gemini" -> <<"/", "v", "1", "b", "e", "t", "a", "/", "m", "o", "d", "e", "l", "s">>

\* f"/v1beta/models/{model_short}:generateContent", around model_short
GenerateContentHead == <<"/", "v", "1", "b", "e", "t", "a", "/", "m", "o", "d", "e", "l", "s", "/">>
GenerateContentTail == <<":", "g", "e", "n", "e", "r", "a", "t", "e", "C", "o", "n", "t", "e", "n", "t">>

\* url of the chat request, after the base url
ChatUrl(ptype, model_name) ==
    CASE ptype = "openai_compat" ->
            <<"/", "c", "h", "a", "t", "/", "c", "o", "m", "p", "l", "e", "t", "i", "o", "n", "s">>
      [] ptype = "anthropic" -> <<"/", "v", "1", "/", "m", "e", "s", "s", "a", "g", "e", "s">>
      [] ptype = "gemini" ->
            GenerateContentHead \o model_short(model_name) \o GenerateContentTail

\* the listing request as main issues it
ListCall(p) ==
    ListRequest(p) @@ [headers |-> headers(p), params |-> params(p),
                       url |-> ListUrl(PROVIDERS[p].type)]

\* the chat request as main issues it
ChatCall(p, m) ==
    ChatRequest(p, m) @@ [headers |-> headers(p), params |-> params(p),
                          url |-> ChatUrl(PROVIDERS[p].type, m.val)]

\* mutant: with --model given the listing is skipped
ResolveCredential_SkipList ==
    /\ prog = "llm" /\ pc = "start"
    /\ stdout' = Append(stdout, "provider")
    /\ IF MissingCredential(provider)
       THEN Die /\ UNCHANGED model
       ELSE IF Truthy(args.model) /\ ~args.list
       THEN pc' = "chat" /\ model' = args.model /\ NoExit
       ELSE pc' = "list" /\ NoExit /\ UNCHANGED model
    /\ UNCHANGED <<prog, provider, env, environ, args, requests, responses, sleeps, attempt,
                   models, text, out, ret>>

\* main up to the credential check
ResolveCredential ==
    /\ prog = "llm" /\ pc = "start"
    /\ stdout' = Append(stdout, "provider")
    /\ IF MissingCredential(provider)
       THEN Die
       ELSE pc' = "list" /\ NoExit
    /\ UNCHANGED <<prog, provider, env, environ, args, requests, responses, sleeps, attempt,
                   models, model, text, out, ret>>

\* data = models.get(key, []) if isinstance(models, dict) else []
ListingData(ptype, body) ==
    IF body.type = "dict" THEN GetOr(body, ListKey(ptype), JList(<<>>)) ELSE JList(<<>>)

\* len(data) raises TypeError on a value that has no length
LenRaises(data) == data.type \in {"null", "int"}

\* for m in data: m.get(key) raises AttributeError on an element that is no
\* dict (iterating a str gives its characters, a dict its keys)
ListLoopRaises(data) ==
    CASE data.type = "list" -> \E i \in 1..Len(data.val) : data.val[i].type # "dict"
      [] data.type = "str" -> Len(data.val) > 0
      [] data.type = "dict" -> DOMAIN data.val # {}
      [] OTHER -> TRUE

\* mutant: the picker's choice wins over --model
ChooseModel_PickFirst(ptype, explicit, body) ==
    IF Truthy(PickModel(ptype, body)) THEN PickModel(ptype, body) ELSE explicit

\* model = args.model or <picker>(models)
ChooseModel(ptype, explicit, body) ==
    IF Truthy(explicit) THEN explicit ELSE PickModel(ptype, body)

\* mutant: only None counts as no model (is None instead of not)
CouldNotChoose_NoneOnly(m) == m.type = "null"

\* if not model: die("Could not choose a model. Use --model")
CouldNotChoose(m) == ~Truthy(m)

\* mutant: a failed listing is passed over when --model is given
ListModelsFails_GoOn ==
    /\ prog = "llm" /\ pc = "list"
    /\ requests' = Append(requests, ListCall(provider))
    /\ \E r \in {Http(s) : s \in ErrorStatuses} \cup {Transport, NotJson} :
         /\ responses' = Append(responses, r)
         /\ IF Truthy(args.model)
            THEN pc' = "chat" /\ model' = args.model /\ NoExit
            ELSE /\ CASE r.kind = "http" -> Die
                      [] r.kind = "transport" -> Crash("RequestException")
                      [] r.kind = "not_json" -> Crash("JSONDecodeError")
                 /\ UNCHANGED model
    /\ UNCHANGED <<prog, provider, env, environ, args, sleeps, attempt, models, text, out,
                   ret, stdout>>

\* the listing request failed: status other than 200, no answer, or a 200
\* whose body r.json() cannot parse
ListModelsFails ==
    /\ prog = "llm" /\ pc = "list"
    /\ requests' = Append(requests, ListCall(provider))
    /\ \E r \in {Http(s) : s \in ErrorStatuses} \cup {Transport, NotJson} :
         /\ responses' = Append(responses, r)
         /\ CASE r.kind = "http" -> Die
              [] r.kind = "transport" -> Crash("RequestException")
              [] r.kind = "not_json" -> Crash("JSONDecodeError")
    /\ UNCHANGED <<prog, provider, env, environ, args, sleeps, attempt, models, model, text, out,
                   ret, stdout>>

\* main from the listing request to the chat request, on a 200 with a JSON body
ListModels ==
    /\ prog = "llm" /\ pc = "list"
    /\ requests' = Append(requests, ListCall(provider))
    /\ responses' = Append(responses, Http(200))
    /\ LET ptype == PROVIDERS[provider].type IN
       \E body \in {Listing(ptype, es) : es \in MainCatalogs(ptype)}
                   \cup {OddListings(ptype)[i] : i \in 1..Len(OddListings(ptype))} :
         LET data == ListingData(ptype, body)
             chosen == ChooseModel(ptype, args.model, body)
         IN  /\ models' = body
             /\ IF LenRaises(data)
                THEN Crash("TypeError") /\ UNCHANGED <<model, stdout>>
                ELSE IF args.list
                THEN /\ stdout' = Append(stdout, "models_found")
                     /\ IF ListLoopRaises(data)
                        THEN Crash("AttributeError")
                        ELSE pc' = "done" /\ exit_code' = 0 /\ UNCHANGED raised
                     /\ UNCHANGED model
                ELSE IF CouldNotChoose(chosen)
                THEN /\ stdout' = Append(stdout, "models_found")
                     /\ Die
                     /\ UNCHANGED model
                ELSE /\ stdout' = stdout \o <<"models_found", "using_model">>
                     /\ model' = chosen
                     /\ pc' = "chat"
                     /\ NoExit
    /\ UNCHANGED <<prog, provider, env, environ, args, sleeps, attempt, text, out, ret>>

\* mutant: the status is tested with r.ok, so any 2xx passes
ChatFails_OkRange ==
    /\ prog = "llm" /\ pc = "chat"
    /\ requests' = Append(requests, ChatCall(provider, model))
    /\ \E r \in {Http(s) : s \in ErrorStatuses} \cup {Transport, NotJson} :
         /\ responses' = Append(responses, r)
         /\ CASE r.kind = "http" ->
                    IF r.status \in 200..299
                    THEN pc' = "done" /\ exit_code' = 0 /\ UNCHANGED raised
                    ELSE Die
              [] r.kind = "transport" -> Crash("RequestException")
              [] r.kind = "not_json" -> Crash("JSONDecodeError")
    /\ UNCHANGED <<prog, provider, env, environ, args, sleeps, attempt, models, model, text, out,
                   ret, stdout>>

\* the chat request failed: status other than 200, no answer, or a 200 whose
\* body r.json() cannot parse
ChatFails ==
    /\ prog = "llm" /\ pc = "chat"
    /\ requests' = Append(requests, ChatCall(provider, model))
    /\ \E r \in {Http(s) : s \in ErrorStatuses} \cup {Transport, NotJson} :
         /\ responses' = Append(responses, r)
         /\ CASE r.kind = "http" -> Die
              [] r.kind = "transport" -> Crash("RequestException")
              [] r.kind = "not_json" -> Crash("JSONDecodeError")
    /\ UNCHANGED <<prog, provider, env, environ, args, sleeps, attempt, models, model, text, out,
                   ret, stdout>>

\* the chat bodies a provider of a type answers with
ChatBodies(ptype) ==
    {WellFormed(ptype, ReplyStrings[i]) : i \in 1..Len(ReplyStrings)}
    \cup {Malformed(ptype, d, Junk[j]) : d \in 0..Len(ReplyChain(ptype)), j \in 1..Len(Junk)}

\* main from the chat request to its return, on a 200 with a JSON body
Chat ==
    /\ prog = "llm" /\ pc = "chat"
    /\ requests' = Append(requests, ChatCall(provider, model))
    /\ responses' = Append(responses, Http(200))
    /\ LET ptype == PROVIDERS[provider].type IN
       \E body \in ChatBodies(ptype) :
         LET got == ExtractText(ptype, body)
         IN  IF got.raised
             THEN Crash("AttributeError") /\ out' = body /\ UNCHANGED <<text, stdout>>
             ELSE /\ out' = body
                  /\ text' = got.val
                  /\ stdout' = stdout \o
                        <<IF args.raw THEN "raw"
                          ELSE IF got.val.type # "null" THEN "reply" ELSE "no_text",
                          "success">>
                  /\ pc' = "done"
                  /\ exit_code' = 0
                  /\ UNCHANGED raised
    /\ UNCHANGED <<prog, provider, env, environ, args, sleeps, attempt, models, model, ret>>

----------------------------------------------------------------------------
(* src/gitai.py: get_openai_client and call_ai.  A request of call_ai is  *)
(* one client.chat.completions.create call; what the client library does *)
(* inside that call is not part of the program.                          *)

\* call_ai's max_retries
max_retries == 3

\* --model of gitai (default gpt-4o)
GitaiModels == {JStr(<<"g", "p", "t", "-", "4", "o">>), JStr(<<"g", "p", "t", "-", "4", "o", "-", "m", "i", "n", "i">>)}

\* max_tokens the commands pass to call_ai
GitaiMaxTokens == {300, 400, 800, 1000, 1500}

\* response.choices of a completion: the content of each choice's message
\* (out holds them as a list)
Completions ==
    <<<<>>, <<None>>, <<JStr(<<"O", "K">>)>>, <<JStr(<<" ", "O", "K", "\n">>)>>, <<JStr(<<>>)>>,
      <<JStr(<<"F", "i", "x", "(", "a", "p", "i", ")", ":", "\n", "x", " ">>), JStr(<<"O", "K">>)>>>>

\* statuses the client raises an error other than RateLimitError for
ApiErrorStatuses == {400, 401, 500}

InitGitai ==
    /\ prog = "gitai"
    /\ pc = "start"
    /\ provider = "openai"
    /\ env \in EnvValues
    /\ environ = NoEnviron
    /\ args \in [list : {FALSE}, model : GitaiModels, raw : {FALSE},
                 max_tokens : GitaiMaxTokens]
    /\ requests = <<>>
    /\ responses = <<>>
    /\ sleeps = <<>>
    /\ attempt = 0
    /\ models = None
    /\ model = None
    /\ out = None
    /\ text = None
    /\ ret = None
    /\ stdout = <<>>
    /\ raised = "none"
    /\ exit_code = -1

get_openai_client ==
    /\ prog = "gitai" /\ pc = "start"
    /\ IF ~Truthy(env)
       THEN Die /\ UNCHANGED model
       ELSE pc' = "call" /\ model' = args.model /\ NoExit
    /\ UNCHANGED <<prog, provider, env, environ, args, requests, responses, sleeps, attempt,
                   models, text, out, ret, stdout>>

\* mutant: the attempt counted from one
wait_time_OneBased(n) == 2 ^ (n + 1) * 5

\* wait_time = 2 ** attempt * 5
wait_time(n) == 2 ^ n * 5

\* response.choices[0].message.content.strip(), inside try: an IndexError or
\* an AttributeError is caught by except Exception, which returns None
CompletionText(choices) ==
    IF Len(choices) = 0 THEN None
    ELSE IF choices[1].type # "str" THEN None
    ELSE JStr(Strip(choices[1].val))

\* what call_ai returns from except Exception
ApiErrorReturn == None

\* what call_ai returns when the loop ends
ExhaustedReturn == None

\* one pass of call_ai's loop whose request succeeds
CallOk ==
    /\ prog = "gitai" /\ pc = "call" /\ attempt < max_retries
    /\ requests' = Append(requests, ChatRequest(provider, model))
    /\ responses' = Append(responses, Http(200))
    /\ \E i \in 1..Len(Completions) :
         /\ out' = JList(Completions[i])
         /\ ret' = CompletionText(Completions[i])
    /\ pc' = "done"
    /\ UNCHANGED <<prog, provider, env, environ, args, sleeps, attempt, models, model, text,
                   stdout, raised, exit_code>>

\* mutant: the loop runs one pass short
CallRateLimited_OnePassShort ==
    /\ prog = "gitai" /\ pc = "call" /\ attempt < max_retries
    /\ requests' = Append(requests, ChatRequest(provider, model))
    /\ responses' = Append(responses, Http(429))
    /\ stdout' = Append(stdout, "rate_limited")
    /\ sleeps' = Append(sleeps, wait_time(attempt))
    /\ attempt' = attempt + 1
    /\ IF attempt + 1 < max_retries - 1
       THEN UNCHANGED <<pc, ret>>
       ELSE pc' = "done" /\ ret' = ExhaustedReturn
    /\ UNCHANGED <<prog, provider, env, environ, args, models, model, text, out, raised,
                   exit_code>>

\* mutant: a rate-limited request is handled like any other error
CallRateLimited_NoRetry ==
    /\ prog = "gitai" /\ pc = "call" /\ attempt < max_retries
    /\ requests' = Append(requests, ChatRequest(provider, model))
    /\ responses' = Append(responses, Http(429))
    /\ ret' = ApiErrorReturn
    /\ pc' = "done"
    /\ UNCHANGED <<prog, provider, env, environ, args, sleeps, attempt, models, model, text, out,
                   stdout, raised, exit_code>>

\* one pass of call_ai's loop whose request raises RateLimitError; after the
\* last pass the loop ends and call_ai returns
CallRateLimited ==
    /\ prog = "gitai" /\ pc = "call" /\ attempt < max_retries
    /\ requests' = Append(requests, ChatRequest(provider, model))
    /\ responses' = Append(responses, Http(429))
    /\ stdout' = Append(stdout, "rate_limited")
    /\ sleeps' = Append(sleeps, wait_time(attempt))
    /\ attempt' = attempt + 1
    /\ IF attempt + 1 < max_retries
       THEN UNCHANGED <<pc, ret>>
       ELSE pc' = "done" /\ ret' = ExhaustedReturn
    /\ UNCHANGED <<prog, provider, env, environ, args, models, model, text, out, raised,
                   exit_code>>

\* mutant: every exception is waited out and retried
CallError_Retry ==
    /\ prog = "gitai" /\ pc = "call" /\ attempt < max_retries
    /\ requests' = Append(requests, ChatRequest(provider, model))
    /\ \E r \in {Http(s) : s \in ApiErrorStatuses} \cup {Transport} :
         responses' = Append(responses, r)
    /\ sleeps' = Append(sleeps, wait_time(attempt))
    /\ attempt' = attempt + 1
    /\ IF attempt + 1 < max_retries
       THEN UNCHANGED <<pc, ret>>
       ELSE pc' = "done" /\ ret' = ExhaustedReturn
    /\ UNCHANGED <<prog, provider, env, environ, args, models, model, text, out, stdout, raised,
                   exit_code>>

\* one pass of call_ai's loop whose request raises another exception
CallError ==
    /\ prog = "gitai" /\ pc = "call" /\ attempt < max_retries
    /\ requests' = Append(requests, ChatRequest(provider, model))
    /\ \E r \in {Http(s) : s \in ApiErrorStatuses} \cup {Transport} :
         responses' = Append(responses, r)
    /\ ret' = ApiErrorReturn
    /\ pc' = "done"
    /\ UNCHANGED <<prog, provider, env, environ, args, sleeps, attempt, models, model, text, out,
                   stdout, raised, exit_code>>

----------------------------------------------------------------------------
(* Model selection on its own: main's choice of a model (no --model given) *)
(* for every listing body up to a catalog length                           *)

\* length of the catalogs model selection is run on
MaxPickCatalog == 3

PickCatalogs(ptype) ==
    {[i \in DOMAIN f |-> Entries(ptype)[f[i]]] :
        f \in SeqsUpTo(Len(Entries(ptype)), MaxPickCatalog)}

InitPick ==
    /\ prog = "pick"
    /\ pc = "start"
    /\ provider \in {"openai", "claude", "gemini"}
    /\ env = JStr(<<"k">>)
    /\ environ = NoEnviron
    /\ args = [list |-> FALSE, model |-> None, raw |-> FALSE, max_tokens |-> 64]
    /\ requests = <<>>
    /\ responses = <<>>
    /\ sleeps = <<>>
    /\ attempt = 0
    /\ LET ptype == PROVIDERS[provider].type IN
       models \in {Listing(ptype, es) : es \in PickCatalogs(ptype)}
                  \cup {OddListings(ptype)[i] : i \in 1..Len(OddListings(ptype))}
    /\ model = None
    /\ out = None
    /\ text = None
    /\ ret = None
    /\ stdout = <<>>
    /\ raised = "none"
    /\ exit_code = -1

\* model = args.model or <picker>(models); if not model: die(...)
Pick ==
    /\ prog = "pick" /\ pc = "start"
    /\ LET chosen == ChooseModel(PROVIDERS[provider].type, args.model, models)
       IN  IF CouldNotChoose(chosen)
           THEN Die /\ UNCHANGED model
           ELSE model' = chosen /\ pc' = "done" /\ NoExit
    /\ UNCHANGED <<prog, provider, env, environ, args, requests, responses, sleeps, attempt,
                   models, text, out, ret, stdout>>

SpecPick == InitPick /\ [][Pick]_vars

----------------------------------------------------------------------------
(* The url of gemini_chat on its own: gemini_chat builds its url for a     *)
(* model name, then for the same name with models/ put in front            *)

\* number of pieces a model name is put together from
MaxSegments == 3

\* pieces of model names
NameSegments ==
    <<ModelsPrefix, <<"m", "o", "d", "e", "l", "s">>, <<"/">>, <<"M", "o", "d", "e", "l", "s", "/">>,
      <<"g", "e", "m", "i", "n", "i", "-", "1", ".", "5", "-", "f", "l", "a", "s", "h">>>>

RECURSIVE Concat(_)
Concat(ss) == IF Len(ss) = 0 THEN <<>> ELSE Head(ss) \o Concat(Tail(ss))

\* the model names: one to MaxSegments pieces, side by side
ModelNames ==
    {Concat([i \in DOMAIN f |-> NameSegments[f[i]]]) :
        f \in SeqsUpTo(Len(NameSegments), MaxSegments) \ {<<>>}}

InitShort ==
    /\ prog = "short"
    /\ pc = "start"
    /\ provider = "gemini"
    /\ env = JStr(<<"k">>)
    /\ environ = NoEnviron
    /\ args = [list |-> FALSE, model |-> None, raw |-> FALSE, max_tokens |-> 64]
    /\ requests = <<>>
    /\ responses = <<>>
    /\ sleeps = <<>>
    /\ attempt = 0
    /\ models = None
    /\ model \in {JStr(n) : n \in ModelNames}
    /\ out = None
    /\ text = None
    /\ ret = None
    /\ stdout = <<>>
    /\ raised = "none"
    /\ exit_code = -1

\* gemini_chat up to its request: first for the name, then for models/ + name
gemini_chat ==
    /\ prog = "short" /\ pc \in {"start", "again"}
    /\ LET model_name == IF pc = "start" THEN model ELSE JStr(ModelsPrefix \o model.val)
       IN  requests' = Append(requests, ChatCall(provider, model_name))
    /\ pc' = IF pc = "start" THEN "again" ELSE "done"
    /\ UNCHANGED <<prog, provider, env, environ, args, responses, sleeps, attempt, models,
                   model, out, text, ret, stdout, raised, exit_code>>

SpecShort == InitShort /\ [][gemini_chat]_vars

----------------------------------------------------------------------------

Init == InitLlm \/ InitGitai

Next ==
    \/ ResolveCredential
    \/ ListModelsFails
    \/ ListModels
    \/ ChatFails
    \/ Chat
    \/ get_openai_client
    \/ CallOk
    \/ CallRateLimited
    \/ CallError

Spec == Init /\ [][Next]_vars

----------------------------------------------------------------------------
(* Properties *)

Is429(r) == r.kind = "http" /\ r.status = 429
IsOk(r) == r.kind = "http" /\ r.status = 200

\* a failure that is not rate-limiting: no answer, or a status outside 2xx
\* other than 429
IsHardFailure(r) ==
    \/ r.kind = "transport"
    \/ r.kind = "http" /\ r.status \notin 200..299 /\ r.status # 429

ChatIdx == {i \in 1..Len(requests) : requests[i].kind = "chat"}
AllRateLimited == \A i \in 1..Len(responses) : Is429(responses[i])

\* C1 (as stated): after three consecutive 429 answers the backoff sleeps
\* were 10s, 20s and 40s, in that order.
C1_Original ==
    (prog = "gitai" /\ Len(responses) = 3 /\ AllRateLimited)
        => sleeps = <<10, 20, 40>>

\* C1 (amended): call_ai sleeps once after each rate-limited attempt, the
\* sleep after the k-th rate-limited attempt lasting 2^(k-1) * 5 seconds:
\* 5s, 10s and 20s after three consecutive 429 answers.
C1_Backoff ==
    prog = "gitai" =>
        /\ Len(sleeps) = Cardinality({i \in 1..Len(responses) : Is429(responses[i])})
        /\ \A k \in 1..Len(sleeps) : Is429(responses[k]) /\ sleeps[k] = 2 ^ (k - 1) * 5
        /\ (Len(responses) = 3 /\ AllRateLimited) => sleeps = <<5, 10, 20>>

C1_Witness ==
    prog = "gitai" /\ pc = "done" /\ Len(responses) = 3 /\ AllRateLimited
    /\ Len(sleeps) = 3

\* C2 (as stated): when every attempt was rate-limited, exactly 3 requests
\* were issued and the outcome returned differs from the one returned for a
\* failure that is not rate-limiting.
C2_Original ==
    (prog = "gitai" /\ pc = "done" /\ responses # <<>> /\ AllRateLimited)
        => Len(requests) = 3 /\ ret # ApiErrorReturn

\* C2 (amended): when every attempt is rate-limited, call_ai issues exactly
\* 3 requests and no more, then returns None; a failure that is not
\* rate-limiting returns None as well, so the return value does not tell the
\* two apart.
C2_Exhausted ==
    prog = "gitai" =>
        /\ Len(requests) <= 3
        /\ (responses # <<>> /\ AllRateLimited) =>
              IF Len(requests) = 3 THEN pc = "done" /\ ret = None
              ELSE pc = "call"
        /\ (pc = "done" /\ responses # <<>>
                /\ IsHardFailure(responses[Len(responses)])) => ret = None

C2_Witness ==
    prog = "gitai" /\ pc = "done" /\ Len(requests) = 3 /\ AllRateLimited
    /\ ret = None

\* what call_ai hands back for a completion whose first choice holds c
StripRef(s) ==
    LET solid == {i \in 1..Len(s) : s[i] \notin {" ", "\t", "\n", "\r"}}
    IN  IF solid = {} THEN <<>>
        ELSE SubSeq(s, CHOOSE i \in solid : \A j \in solid : i <= j,
                       CHOOSE i \in solid : \A j \in solid : i >= j)

\* C3 (as stated): for every provider and protocol family a chat request
\* answered 429 is retried: the run goes on with one backoff sleep made, and
\* when the next attempt is answered 200 there were two requests and one
\* sleep in total.
C3_Original ==
    /\ (ChatIdx # {} /\ Is429(responses[Len(responses)])
            /\ Cardinality({i \in ChatIdx : Is429(responses[i])}) = 1)
          => pc # "done" /\ Len(sleeps) = 1
    /\ (Cardinality(ChatIdx) >= 2 /\ IsOk(responses[Len(responses)]))
          => Cardinality(ChatIdx) = 2 /\ Len(sleeps) = 1

\* C3 (amended): in call_ai (gitai, OpenAI only) a rate-limited request
\* followed by a successful one makes exactly one retry: two requests, one
\* backoff sleep, and the reply of the successful response is returned: its
\* first choice's content stripped of surrounding whitespace, None when it
\* holds no text.  The llm.py tester never retries: a 429 on its chat
\* request ends the run with status 1 after that one chat request.
C3_OneRetry ==
    /\ (prog = "gitai" /\ Len(responses) = 1 /\ Is429(responses[1]))
          => pc = "call" /\ sleeps = <<5>>
    /\ (prog = "gitai" /\ Len(responses) = 2 /\ Is429(responses[1])
            /\ IsOk(responses[2]))
          => /\ pc = "done" /\ Len(requests) = 2 /\ Len(sleeps) = 1
             /\ ret = IF Len(out.val) > 0 /\ out.val[1].type = "str"
                      THEN JStr(StripRef(out.val[1].val)) ELSE None
    /\ (prog = "llm" /\ ChatIdx # {} /\ Is429(responses[Len(responses)]))
          => /\ pc = "done" /\ exit_code = 1 /\ sleeps = <<>>
             /\ Cardinality(ChatIdx) = 1

C3_Witness ==
    prog = "gitai" /\ pc = "done" /\ Len(responses) = 2 /\ Is429(responses[1])
    /\ IsOk(responses[2]) /\ ret.type = "str" /\ ret.val # out.val[1].val

\* C4: only rate-limiting is retried.  A chat attempt that fails with a
\* status outside 2xx other than 429, or with a transport failure, is the
\* last request of the run: the invocation has failed, no sleep follows the
\* failing attempt and no request is issued after it.
C4_OnlyRateLimitRetried ==
    \A i \in ChatIdx :
        IsHardFailure(responses[i]) =>
            /\ i = Len(requests)
            /\ pc = "done"
            /\ Len(sleeps) = Cardinality({j \in 1..(i - 1) : Is429(responses[j])})
            /\ IF prog = "gitai" THEN ret = None ELSE exit_code = 1

C4_Witness ==
    prog = "gitai" /\ Len(responses) = 2 /\ Is429(responses[1])
    /\ IsHardFailure(responses[2]) /\ pc = "done" /\ Len(sleeps) = 1

CredentialRequired == prog = "gitai" \/ PROVIDERS[provider].api_key_env # NoKeyEnv
CredentialAbsent == env \in {None, JStr(<<>>)}

\* C5: a run whose provider requires a credential whose environment
\* variable is unset or empty stops with an error before any network call
\* (no listing request, no chat request); a provider that requires none
\* (ollama) is never stopped this way.
C5_MissingCredential ==
    /\ (CredentialRequired /\ CredentialAbsent) =>
          /\ requests = <<>>
          /\ pc \in {"start", "done"}
          /\ pc = "done" => exit_code = 1 /\ raised = "SystemExit"
    /\ (~CredentialRequired /\ pc = "done") => requests # <<>>

C5_Witness ==
    prog = "llm" /\ CredentialRequired /\ env = JStr(<<>>) /\ pc = "done"
    /\ exit_code = 1 /\ requests = <<>>

\* len() of the model list of the listing body does not raise: the body is
\* no object, or has no model list, or the list is a list, a str or an object
ModelListHasLength ==
    LET key == IF provider = "gemini" THEN "models" ELSE "data"
    IN  \/ models.type # "dict"
        \/ key \notin DOMAIN models.val
        \/ models.val[key].type \in {"list", "str", "dict"}

\* C6 (as stated): when the caller gives a model, no model-listing request
\* is issued.
C6_Original ==
    (prog = "llm" /\ Truthy(args.model))
        => \A i \in 1..Len(requests) : requests[i].kind # "list"

\* C6 (amended): an explicit model bypasses the selection heuristic only.
\* llm.py issues the listing request first in every run, and a listing that
\* fails (status other than 200, transport failure, unparseable body, a
\* model list without a length) ends the run; once the listing is answered
\* 200 with a body whose model list has a length, the chat request is made
\* with the explicit model whatever the catalog holds, an empty one included.
C6_ExplicitModel ==
    (prog = "llm" /\ Truthy(args.model) /\ requests # <<>>) =>
        /\ requests[1].kind = "list"
        /\ ~IsOk(responses[1]) => pc = "done" /\ exit_code = 1 /\ Len(requests) = 1
        /\ (IsOk(responses[1]) /\ ~args.list /\ ModelListHasLength)
              => /\ model = args.model
                 /\ IF Len(requests) = 1 THEN pc = "chat"
                    ELSE requests[2] = ChatCall(provider, args.model)

C6_Witness ==
    prog = "llm" /\ Truthy(args.model) /\ Len(requests) = 2
    /\ models = JDict(ListKey(PROVIDERS[provider].type) :> JList(<<>>))
    /\ requests[2].model = args.model

----------------------------------------------------------------------------
(* Properties of model selection *)

\* the list of entries a listing body holds (empty when it holds none)
RawEntries ==
    LET key == IF provider = "gemini" THEN "models" ELSE "data"
    IN  IF models.type = "dict" /\ key \in DOMAIN models.val
           /\ models.val[key].type = "list"
        THEN models.val[key].val ELSE <<>>

\* the identifiers among entries, in order
RECURSIVE StringIds(_, _)
StringIds(es, key) ==
    IF Len(es) = 0 THEN <<>>
    ELSE LET e == Head(es)
         IN  (IF e.type = "dict" /\ key \in DOMAIN e.val /\ e.val[key].type = "str"
              THEN <<e.val[key].val>> ELSE <<>>) \o StringIds(Tail(es), key)

\* the catalog: the model identifiers of the listing, in listing order
Catalog == StringIds(RawEntries, IF provider = "gemini" THEN "name" ELSE "id")

\* id contains p, letter case ignored
ContainsCI(p, id) ==
    \E k \in 0..(Len(id) - Len(p)) :
        \A m \in 1..Len(p) : LowerChar(id[k + m]) = LowerChar(p[m])

DefaultPreference ==
    CASE provider = "gemini" -> GeminiPrefer
      [] provider = "claude" -> AnthropicPrefer
      [] OTHER -> OpenAIPrefer

\* the reference: the earliest identifier containing the first preference
\* that any identifier contains; the first identifier when none does
SelectRef(prefer, cat) ==
    LET hits(i) == {j \in 1..Len(cat) : ContainsCI(prefer[i], cat[j])}
        live == {i \in 1..Len(prefer) : hits(i) # {}}
    IN  IF live = {} THEN cat[1]
        ELSE LET i0 == CHOOSE i \in live : \A k \in live : i <= k
             IN  cat[CHOOSE j \in hits(i0) : \A k \in hits(i0) : j <= k]

\* C7: for every non-empty catalog the picker of each provider type returns
\* what the reference returns for its default preference order; for
\* [llama-3-8b, gpt-4o, mixtral-8x7b] that is gpt-4o and for [foo-1, bar-2]
\* it is foo-1.
C7_SelectModel ==
    (prog = "pick" /\ Len(Catalog) > 0) =>
        LET picked == PickModel(PROVIDERS[provider].type, models)
        IN  /\ picked = JStr(SelectRef(DefaultPreference, Catalog))
            /\ (provider = "openai" /\ Catalog = <<<<"l", "l", "a", "m", "a", "-", "3", "-", "8", "b">>,
                    <<"g", "p", "t", "-", "4", "o">>,
                    <<"m", "i", "x", "t", "r", "a", "l", "-", "8", "x", "7", "b">>>>)
                  => picked = JStr(<<"g", "p", "t", "-", "4", "o">>)
            /\ (Catalog = <<<<"f", "o", "o", "-", "1">>, <<"b", "a", "r", "-", "2">>>>) => picked = JStr(<<"f", "o", "o", "-", "1">>)
            /\ (pc = "done" /\ exit_code = -1) => model = picked

C7_Witness ==
    prog = "pick" /\ pc = "done" /\ provider = "openai"
    /\ RawEntries = <<ModelEntry("id", <<"l", "l", "a", "m", "a", "-", "3", "-", "8", "b">>),
                      ModelEntry("id", <<"g", "p", "t", "-", "4", "o">>),
                      ModelEntry("id", <<"m", "i", "x", "t", "r", "a", "l", "-", "8", "x", "7", "b">>)>>
    /\ model = JStr(<<"g", "p", "t", "-", "4", "o">>)

\* C8 (as stated): selection returns an entry of the catalog whenever the
\* catalog has at least one entry, and fails exactly when it has none (the
\* catalog read as the identifiers of the listing, the reading under which
\* the fewest listings count as non-empty).
C8_Original ==
    (prog = "pick" /\ pc = "done") =>
        /\ exit_code = 1 <=> Len(Catalog) = 0
        /\ Len(Catalog) > 0 =>
              model.type = "str" /\ \E j \in 1..Len(Catalog) : Catalog[j] = model.val

\* C8 (amended): selection returns one of the string identifiers the listing
\* carries whenever it carries at least one, and returns no model exactly
\* when it carries none (no list, an empty list, or only entries without a
\* string identifier).  main fails to choose a model in that case, and also
\* when the identifier selected is the empty string.
C8_Total ==
    (prog = "pick" /\ pc = "done") =>
        LET picked == PickModel(PROVIDERS[provider].type, models)
        IN  /\ picked = None <=> Len(Catalog) = 0
            /\ Len(Catalog) > 0 =>
                  picked.type = "str" /\ \E j \in 1..Len(Catalog) : Catalog[j] = picked.val
            /\ exit_code = 1 <=>
                  (Len(Catalog) = 0 \/ SelectRef(DefaultPreference, Catalog) = <<>>)
            /\ exit_code # 1 => model = picked

C8_Witness ==
    prog = "pick" /\ pc = "done" /\ Len(RawEntries) = 2 /\ Len(Catalog) = 0
    /\ exit_code = 1 /\ model = None

----------------------------------------------------------------------------
(* Properties of reply extraction *)

Missing == [type |-> "missing", val |-> <<>>]

\* the value at path[i..] inside v, Missing when the path does not resolve
RECURSIVE AtPath(_, _, _)
AtPath(v, path, i) ==
    IF i > Len(path) THEN v
    ELSE IF path[i] = "[0]"
    THEN IF v.type = "list" /\ Len(v.val) > 0
         THEN AtPath(v.val[1], path, i + 1) ELSE Missing
    ELSE IF v.type = "dict" /\ path[i] \in DOMAIN v.val
         THEN AtPath(v.val[path[i]], path, i + 1) ELSE Missing

\* choices[0].message.content, content[0].text, candidates[0].content.parts[0].text
ReplyPath ==
    CASE provider = "gemini" -> <<"candidates", "[0]", "content", "parts", "[0]", "text">>
      [] provider = "claude" -> <<"content", "[0]", "text">>
      [] OTHER -> <<"choices", "[0]", "message", "content">>

\* the chat request of a run of main was answered 200 with a JSON body
ChatAnswered ==
    prog = "llm" /\ ChatIdx # {} /\ IsOk(responses[Len(responses)])

\* C9: parsing a chat response body never raises, whatever the body holds:
\* a run of main whose chat request is answered 200 with a JSON body ends
\* with the reply text or with no text, not with an exception.
C9_NeverRaises == ChatAnswered => raised = "none"

\* C10 (as stated): on every path that returns reply text, a body whose
\* path holds a string yields exactly that string.
C10_Original ==
    /\ (ChatAnswered /\ raised = "none" /\ AtPath(out, ReplyPath, 1).type = "str")
          => text = AtPath(out, ReplyPath, 1)
    /\ (prog = "gitai" /\ pc = "done" /\ responses # <<>>
            /\ IsOk(responses[Len(responses)])
            /\ AtPath(out, <<"[0]">>, 1).type = "str")
          => ret = AtPath(out, <<"[0]">>, 1)

\* C10 (amended): the extractors of llm.py yield exactly the string stored
\* at the family's path, unmodified, for all three protocol families;
\* call_ai returns the content of choices[0].message with its leading and
\* trailing whitespace stripped.
C10_ReplyText ==
    /\ (ChatAnswered /\ AtPath(out, ReplyPath, 1).type = "str")
          => raised = "none" /\ text = AtPath(out, ReplyPath, 1)
    /\ (prog = "gitai" /\ pc = "done" /\ responses # <<>>
            /\ IsOk(responses[Len(responses)])
            /\ AtPath(out, <<"[0]">>, 1).type = "str")
          => ret = JStr(StripRef(AtPath(out, <<"[0]">>, 1).val))

C10_Witness ==
    ChatAnswered /\ provider = "gemini" /\ text = JStr(<<" ", "O", "K", "\n">>)

----------------------------------------------------------------------------
(* Properties of the outcome of a run *)

\* C11: a chat request answered 200 whose body holds no reply text ends the
\* invocation as a success with an absent text, an outcome the caller can
\* tell from a request failure: main exits 0 without an exception, and
\* call_ai returns something other than what it returns for a failed request.
C11_ExtractionNotFatal ==
    /\ (ChatAnswered /\ AtPath(out, ReplyPath, 1).type # "str")
          => raised = "none" /\ exit_code = 0 /\ text = None
    /\ (prog = "gitai" /\ pc = "done" /\ responses # <<>>
            /\ IsOk(responses[Len(responses)])
            /\ AtPath(out, <<"[0]">>, 1).type # "str")
          => ret # ApiErrorReturn

\* the answer to the chat request of a run of main
ChatResponse == responses[Len(responses)]

\* the chat request of a run of main got an HTTP answer
ChatGotStatus == prog = "llm" /\ ChatIdx # {} /\ ChatResponse.kind = "http"

\* C12 (as stated): every 2xx answer to the chat request leads to parsing
\* the body, and the request-failed error is produced only for a status
\* outside 2xx other than 429.
C12_Original ==
    ChatGotStatus =>
        /\ ChatResponse.status \in 200..299 => raised # "SystemExit"
        /\ raised = "SystemExit"
              => ChatResponse.status \notin 200..299 /\ ChatResponse.status # 429

\* C12 (amended): the chat request of llm.py is classified by equality with
\* 200: only a 200 answer is parsed; every other status, the other 2xx
\* statuses and 429 included, ends the run through die with status 1,
\* before the body is parsed and without the success marker.
C12_Only200 ==
    ChatGotStatus =>
        /\ ChatResponse.status = 200 => raised # "SystemExit"
        /\ ChatResponse.status # 200
              => /\ raised = "SystemExit" /\ exit_code = 1 /\ pc = "done"
                 /\ out = None /\ text = None
                 /\ \A i \in 1..Len(stdout) : stdout[i] # "success"

C12_Witness ==
    ChatGotStatus /\ ChatResponse.status = 201 /\ raised = "SystemExit"

----------------------------------------------------------------------------
(* Properties of the requests of main *)

\* C13: no request of main, for any provider and any setting of the
\* environment, carries a header whose value is empty; the optional
\* OpenRouter headers and the anthropic-version header included.
C13_NoEmptyHeader ==
    prog = "llm" =>
        \A i \in 1..Len(requests) :
            \A k \in DOMAIN requests[i].headers : Len(requests[i].headers[k]) > 0

\* the ways a request carries a credential
AuthMechanisms(r) ==
    {m \in {"bearer", "x-api-key", "query"} :
        CASE m = "bearer" -> "Authorization" \in DOMAIN r.headers
          [] m = "x-api-key" -> "x-api-key" \in DOMAIN r.headers
          [] m = "query" -> "key" \in DOMAIN r.params}

\* the one way the protocol family of a provider prescribes, none for a
\* provider that needs no key
FamilyMechanism(p) ==
    CASE PROVIDERS[p].api_key_env = NoKeyEnv -> {}
      [] PROVIDERS[p].type = "openai_compat" -> {"bearer"}
      [] PROVIDERS[p].type = "anthropic" -> {"x-api-key"}
      [] PROVIDERS[p].type = "gemini" -> {"query"}

\* C14: every request of main, listing and chat alike, carries the
\* credential the one way its protocol family prescribes: Authorization
\* "Bearer <key>" for an OpenAI-compatible provider that requires a key and no
\* Authorization header for one that requires none, x-api-key for Anthropic,
\* and for Gemini the key query parameter with the credential in no header.
C14_OneAuthMechanism ==
    prog = "llm" =>
        \A i \in 1..Len(requests) :
            LET r == requests[i] IN
            /\ AuthMechanisms(r) = FamilyMechanism(provider)
            /\ "bearer" \in AuthMechanisms(r) => r.headers["Authorization"] = Bearer \o env.val
            /\ "x-api-key" \in AuthMechanisms(r) => r.headers["x-api-key"] = env.val
            /\ "query" \in AuthMechanisms(r)
                  => /\ r.params["key"] = env.val
                     /\ \A k \in DOMAIN r.headers : ~Contains(env.val, r.headers[k])

C14_Witness ==
    /\ prog = "llm" /\ provider = "gemini" /\ Len(requests) = 2
    /\ requests[1].kind = "list" /\ requests[2].kind = "chat"
    /\ requests[2].params = ("key" :> env.val)

----------------------------------------------------------------------------
(* Properties of the listing step *)

\* the answer to the listing request of a run of main
ListResponse == responses[1]

\* the listing request of a run of main was answered
ListAnswered == prog = "llm" /\ responses # <<>>

\* the listing request is the only request and the run is over, failed
StoppedAtListing ==
    Len(requests) = 1 /\ pc = "done" /\ exit_code = 1 /\ raised # "none"

\* C15 (as stated): a listing answered with a status other than 200, or
\* with a 200 whose body does not parse as an object, stops the invocation
\* there as a failure, and no chat request is issued.
C15_Original ==
    (ListAnswered /\ (~IsOk(ListResponse) \/ models.type # "dict"))
        => StoppedAtListing \/ (Len(requests) = 1 /\ args.list)

\* C15 (amended): a listing answered with a status other than 200 ends the
\* run through die, and a 200 whose body is not JSON ends it with the
\* decoder's exception; no chat request is issued in either case.  A 200
\* whose body is JSON but not an object is read as an empty catalog: in
\* list mode the run prints a count of 0 and ends with status 0; with a
\* non-empty --model the run goes on to the chat request with that model;
\* otherwise it dies with "Could not choose a model".
C15_ListingFailure ==
    /\ (ListAnswered /\ ~IsOk(ListResponse))
          => /\ StoppedAtListing
             /\ ListResponse.kind = "http" <=> raised = "SystemExit"
             /\ ListResponse.kind = "not_json" <=> raised = "JSONDecodeError"
    /\ (ListAnswered /\ IsOk(ListResponse) /\ models.type # "dict")
          => IF args.list
             THEN Len(requests) = 1 /\ pc = "done" /\ exit_code = 0 /\ raised = "none"
             ELSE IF Truthy(args.model)
             THEN /\ model = args.model
                  /\ Len(requests) = 1 => pc = "chat"
                  /\ Len(requests) = 2 => requests[2] = ChatCall(provider, args.model)
             ELSE StoppedAtListing /\ raised = "SystemExit"

C15_Witness ==
    /\ ListAnswered /\ IsOk(ListResponse) /\ models = JList(<<>>)
    /\ Len(requests) = 2 /\ requests[2].kind = "chat"

----------------------------------------------------------------------------
(* Properties of the exit status of main *)

SuccessPrinted == \E i \in 1..Len(stdout) : stdout[i] = "success"

\* a configuration or request failure happened in the run of main
MainFailure ==
    \/ pc # "start" /\ CredentialRequired /\ CredentialAbsent
    \/ ListAnswered /\ ~IsOk(ListResponse)
    \/ ListAnswered /\ IsOk(ListResponse) /\ ~args.list
          /\ ~Truthy(args.model) /\ Catalog = <<>>
    \/ ChatIdx # {} /\ ~IsOk(ChatResponse)

\* C16: a run of main that meets a missing credential, a failed listing,
\* no selectable model or a failed chat request ends with a non-zero
\* status; a run that succeeds ends with status 0; and the success marker
\* is never printed on a run that ends with a non-zero status.
C16_ExitStatus ==
    prog = "llm" =>
        /\ MainFailure => pc = "done" /\ exit_code # 0
        /\ (ChatAnswered /\ raised = "none")
              => pc = "done" /\ exit_code = 0 /\ SuccessPrinted
        /\ SuccessPrinted => pc = "done" /\ exit_code = 0
        /\ pc = "done" <=> exit_code # -1

C16_Witness ==
    /\ prog = "llm" /\ ChatIdx # {} /\ ChatResponse = Http(500)
    /\ pc = "done" /\ exit_code = 1 /\ ~SuccessPrinted

----------------------------------------------------------------------------
(* Properties of the Gemini endpoint path *)

\* the model segment of a generateContent url
PathSegment(url) ==
    SubSeq(url, Len(GenerateContentHead) + 1, Len(url) - Len(GenerateContentTail))

HasModelsPrefix(name) ==
    Len(name) >= 7 /\ \A i \in 1..7 : name[i] = <<"m", "o", "d", "e", "l", "s", "/">>[i]

----------------------------------------------------------------------------
(* Properties of the order of the steps of main *)

ListIdx == {i \in 1..Len(requests) : requests[i].kind = "list"}

\* C18: the steps of a run of main come in one order.  No request is issued
\* before the credential is resolved (a run whose credential is missing
\* issues none); the first request is the listing request and it is the
\* only one; the chat request, if any, is the second request, issued only
\* after the listing was answered 200 and a model was chosen, and it names
\* that model; in list mode no chat request is issued.
C18_StepsInOrder ==
    prog = "llm" =>
        /\ pc = "start" => requests = <<>>
        /\ requests # <<>>
              => /\ stdout # <<>> /\ stdout[1] = "provider"
                 /\ ~(CredentialRequired /\ CredentialAbsent)
                 /\ requests[1].kind = "list"
        /\ Cardinality(ListIdx) <= 1
        /\ ChatIdx \subseteq {2}
        /\ ChatIdx # {}
              => /\ IsOk(responses[1])
                 /\ Truthy(model) /\ requests[2].model = model
                 /\ ~args.list
        /\ pc = "chat" => ListIdx = {1} /\ IsOk(responses[1]) /\ Truthy(model)

C18_Witness ==
    /\ prog = "llm" /\ provider = "openai" /\ pc = "done"
    /\ ListIdx = {1} /\ ChatIdx = {2} /\ responses[1] = Http(200)

----------------------------------------------------------------------------
(* Properties of the sleeps of call_ai *)

\* C19: every backoff sleep of call_ai is followed by another request, so
\* a finished call that issued requests has slept fewer times than it has
\* issued requests, and a sleep is never the last thing a call does.
C19_NoSleepAfterLast ==
    (prog = "gitai" /\ pc = "done" /\ requests # <<>>)
        => /\ Len(sleeps) < Len(requests)
           /\ ~Is429(responses[Len(responses)])

====
